---- MODULE Spec2Model ----
(***************************************************************************)
(* cargo-features: the hidden-feature audit of src/package.rs driven by    *)
(* src/main.rs.  A Package owns mapping: Cargo.toml path -> CrateInfo.     *)
(* find_used_features reads the JSON lines printed by ripgrep, buckets     *)
(* every feature occurrence under the Cargo.toml found by walking up from  *)
(* the source file, find_exposed_features loads each manifest's [features] *)
(* table, find_hidden_features takes used - exposed, and                   *)
(* check_hidden_features prints the report and decides the outcome.        *)
(*                                                                         *)
(* Paths are sequences of components ("a/c/x.rs" is <<"a","c","x.rs">>,    *)
(* the empty path "" is <<>>); an Option is a set with at most one         *)
(* element ({} is None).                                                   *)
(***************************************************************************)
EXTENDS Integers, Sequences, FiniteSets, TLC

VARIABLES
    pc,                 \* where main (or the test driver) stands
    mapping,            \* Package.mapping: Cargo.toml path -> CrateInfo
    excluded_paths,     \* Package.excluded_paths
    excluded_features,  \* Package.excluded_features
    disk,               \* the Cargo.toml files that exist in the directory snapshot
    toml,               \* what each Cargo.toml read so far turned out to hold
    scanned,            \* the <<path, line_number>> matches ripgrep has printed so far
    err,                \* the message of the Err that ended the run ("" while there is none)
    outcome,            \* how the run ended: "running", "Ok", "Err" or "panic"
    out,                \* the lines printed to stdout
    first,              \* history: per manifest, the first insertion of each name, and the names inserted again from elsewhere
    seen,               \* history: the kinds of occurrence processed so far that must not be recorded
    ran                 \* history: the Package operations that have returned or panicked, in order, each with how it ended

vars == <<pc, mapping, excluded_paths, excluded_features, disk, toml, scanned,
          err, outcome, out, first, seen, ran>>

----------------------------------------------------------------------------
(* Bounds of the model. *)

\* the number of match lines of ripgrep's output that are processed
MaxMatches == 2
\* the largest line number of a source file
MaxLineNumber == 2
\* the largest number of tokens on one matched source line
MaxTokens == 2

\* feature names
Names == {"f", "g"}
\* what a source line holds besides guards: text the regex does not match
Junk == "junk"
Tokens == Names \cup {Junk}

\* the directories of the scanned tree: the root, a/ and a/c/
TreeDirs == {<<>>, <<"a">>, <<"a", "c">>}
\* one source file in each directory
SourceFiles == {Append(d, "x.rs") : d \in TreeDirs}
\* the paths a match line of ripgrep's output may carry; the empty path is
\* the one path without a parent
RgPaths == SourceFiles \cup {<<>>}
\* the --excluded-paths of a run: none, a directory, a source file
ExcludedPathsChoices == {{}, {<<"a">>}, {<<"x.rs">>}}
\* the --excluded-features of a run: none, or one name
ExcludedFeaturesChoices == {{}, {"f"}}
\* the lines of source text: sequences of at most MaxTokens tokens
LineTexts == UNION {[1..n -> Tokens] : n \in 0..MaxTokens}

----------------------------------------------------------------------------
(* Paths: std::path as used by package.rs. *)

\* path.join("Cargo.toml")
JoinCargoToml(path) == Append(path, "Cargo.toml")

\* path.parent(): None for the empty path
Parent(path) == IF Len(path) = 0 THEN {} ELSE {SubSeq(path, 1, Len(path) - 1)}

\* path.ancestors(): the path itself, its parent, ..., down to the empty path
Ancestors(path) == {SubSeq(path, 1, k) : k \in 0..Len(path)}

\* candidate.exists()
Exists(candidate) == candidate \in disk

\* the Cargo.toml files the tree may hold
ManifestPaths == {JoinCargoToml(d) : d \in TreeDirs}

----------------------------------------------------------------------------
(* Feature and its name-only identity. *)

UsedFeature(name, path, line_number) ==
    [kind |-> "Used", name |-> name, path |-> path, line_number |-> line_number]

ExposedFeature(name) == [kind |-> "Exposed", name |-> name]

\* Feature::path
FeaturePath(feature) == IF feature.kind = "Used" THEN {feature.path} ELSE {}

\* Feature::clickable_path
ClickablePath(feature) ==
    IF feature.kind = "Used" THEN {<<feature.path, feature.line_number>>} ELSE {}

\* what #[derive(PartialEq)] would compare: every field
FeatureEqAllFields(a, b) == a = b

\* impl PartialEq for Feature (and Hash): the name alone
FeatureEq(a, b) == a.name = b.name

\* HashSet<Feature>::contains
SetContains(set, feature) == \E g \in set : FeatureEq(g, feature)

\* an insert that overwrites the stored element (HashSet::replace)
SetInsertReplacing(set, feature) ==
    {g \in set : ~FeatureEq(g, feature)} \cup {feature}

\* HashSet<Feature>::insert: an element equal to one already stored is dropped
SetInsert(set, feature) ==
    IF SetContains(set, feature) THEN set ELSE set \cup {feature}

\* HashSet::union(..).cloned().collect(): the elements of self, then those
\* of the other set that self does not contain
SetUnion(set, other) == set \cup {g \in other : ~SetContains(set, g)}

\* a difference that keeps every element of self
SetDifferenceKeepAll(set, other) == set

\* HashSet::difference(..).cloned().collect()
SetDifference(set, other) == {g \in set : ~SetContains(other, g)}

----------------------------------------------------------------------------
(* CrateInfo *)

\* CrateInfo::new
NewCrateInfo(path) ==
    [path |-> path, exposed_features |-> {}, used_features |-> {},
     hidden_features |-> {}]

\* an add_used_features that keeps the common elements (intersection for union)
AddUsedFeaturesIntersection(crate_info, new_features) ==
    [crate_info EXCEPT
       !.used_features = {g \in @ : \E h \in new_features : g.name = h.name}]

\* CrateInfo::add_used_features
AddUsedFeatures(crate_info, new_features) ==
    [crate_info EXCEPT !.used_features = SetUnion(@, new_features)]

----------------------------------------------------------------------------
(* Occurrence extraction *)

\* an extract_features that stops at the first guard of the line (captures
\* for captures_iter)
ExtractFeaturesFirstOnly(text) ==
    LET all == SelectSeq(text, LAMBDA t : t \in Names)
    IN  IF all = <<>> THEN <<>> ELSE <<all[1]>>

\* extract_features: the names of the guards of a line, in order
ExtractFeatures(text) == SelectSeq(text, LAMBDA t : t \in Names)

\* the exclusion test that looks at the path alone, not at its ancestors
PathExcludedSelfOnly(path) == path \in excluded_paths

\* cfg_features, the exclusion test: some ancestor of the path is excluded
PathExcluded(path) == \E ancestor \in Ancestors(path) : ancestor \in excluded_paths

\* cfg_features for a well-formed match: the Used features of one line
CfgFeatures(path, line_number, text) ==
    IF PathExcluded(path)
    THEN <<>>
    ELSE LET feature_names == ExtractFeatures(text)
         IN  [i \in 1..Len(feature_names) |->
                 UsedFeature(feature_names[i], path, line_number)]

----------------------------------------------------------------------------
(* Manifest resolution *)

\* a resolver that prefers any ancestor manifest already in mapping to the disk
FindKnownFirst(keys, path) ==
    LET known == {a \in Ancestors(path) : JoinCargoToml(a) \in keys}
        ondisk == {a \in Ancestors(path) : Exists(JoinCargoToml(a))}
        longest(S) == CHOOSE a \in S : \A b \in S : Len(b) <= Len(a)
    IN  IF known # {} THEN {JoinCargoToml(longest(known))}
        ELSE IF ondisk # {} THEN {JoinCargoToml(longest(ondisk))}
        ELSE {}

RECURSIVE WalkFrom(_, _, _)
\* find_associated_cargo, the loop of lines 174-184 standing at path; keys
\* are the keys of mapping, tested the directories whose candidate was
\* looked at in the iterations before
WalkFrom(keys, path, tested) ==
    LET candidate == JoinCargoToml(path)
    IN  IF candidate \in keys \/ Exists(candidate)
        THEN [tested |-> Append(tested, path), found |-> {candidate}]
        ELSE IF Parent(path) = {}
             THEN [tested |-> Append(tested, path), found |-> {}]
             ELSE WalkFrom(keys, CHOOSE p \in Parent(path) : TRUE,
                           Append(tested, path))

\* a walk that steps to the parent before it looks at the first candidate
WalkParentFirst(keys, path) ==
    IF Parent(path) = {}
    THEN [tested |-> <<>>, found |-> {}]
    ELSE WalkFrom(keys, CHOOSE p \in Parent(path) : TRUE, <<>>)

\* find_associated_cargo entered with path, line 173
Walk(keys, path) == WalkFrom(keys, path, <<>>)

\* Package::find_associated_cargo: what it returns
FindAssociatedCargo(keys, path) == Walk(keys, path).found

\* the messages of add_feature's errors
NoParentMsg == "path has no parent"
NoCargoMsg == "could not find corresponding Cargo file"

\* an add_feature that skips an occurrence without owning manifest
UnresolvedSkipped(st) == st

\* add_feature, the ok_or_else of line 229: the Err is returned
Unresolved(st) == [st EXCEPT !.err = NoCargoMsg]

\* history: the first insertion of a name for a manifest is noted with its
\* feature; a later insertion of the name from another place is noted by name
NoteInsertion(noted, cargo_path, feature) ==
    IF \E p \in noted : p[1] = cargo_path /\ p[2] = "first" /\ p[3].name = feature.name
    THEN IF <<cargo_path, "first", feature>> \in noted
         THEN noted
         ELSE noted \cup {<<cargo_path, "later", [name |-> feature.name]>>}
    ELSE noted \cup {<<cargo_path, "first", feature>>}

\* Package::add_feature on st = [mapping, first, err]: st.err # "" is the Err
AddFeature(st, feature) ==
    IF FeaturePath(feature) = {}
    THEN [st EXCEPT !.err = "internal error: should have a path"]
    ELSE
    LET path == CHOOSE p \in FeaturePath(feature) : TRUE
    IN  IF Parent(path) = {}
        THEN [st EXCEPT !.err = NoParentMsg]
        ELSE
        LET parent == CHOOSE p \in Parent(path) : TRUE
            found == FindAssociatedCargo(DOMAIN st.mapping, parent)
        IN  IF found = {}
            THEN Unresolved(st)
            ELSE
            LET cargo_path == CHOOSE c \in found : TRUE
                first2 == NoteInsertion(st.first, cargo_path, feature)
            IN  IF cargo_path \in DOMAIN st.mapping
                THEN [st EXCEPT
                        !.mapping[cargo_path].used_features = SetInsert(@, feature),
                        !.first = first2]
                ELSE [mapping |->
                        [k \in DOMAIN st.mapping \cup {cargo_path} |->
                            IF k = cargo_path
                            THEN AddUsedFeatures(NewCrateInfo(cargo_path),
                                                 SetInsert({}, feature))
                            ELSE st.mapping[k]],
                      first |-> first2,
                      err |-> st.err]

\* self.excluded_features.contains(..)
NameExcluded(name) == name \in excluded_features

RECURSIVE AddFeatures(_, _, _)
\* find_used_features, the loop over the features of one match (lines 207-212)
AddFeatures(st, features, i) ==
    IF i > Len(features) \/ st.err # ""
    THEN st
    ELSE AddFeatures(IF NameExcluded(features[i].name)
                     THEN st
                     ELSE AddFeature(st, features[i]),
                     features, i + 1)

RECURSIVE AddLines(_, _, _, _)
\* find_used_features, the loop over the match lines (lines 197-214), for the
\* lines i, i+1, .. of a file that holds the i-th token of text on its line i
AddLines(st, path, text, i) ==
    IF i > Len(text) \/ st.err # ""
    THEN st
    ELSE AddLines(AddFeatures(st, CfgFeatures(path, i, <<text[i]>>), 1),
                  path, text, i + 1)

----------------------------------------------------------------------------
(* The run *)

Init ==
    /\ pc = "new"
    /\ mapping = <<>>
    /\ excluded_paths \in ExcludedPathsChoices
    /\ excluded_features \in ExcludedFeaturesChoices
    /\ disk \in SUBSET ManifestPaths
    /\ toml = <<>>
    /\ scanned = {}
    /\ err = ""
    /\ outcome = "running"
    /\ out = {}
    /\ first = {}
    /\ seen = {}
    /\ ran = <<>>

\* a main that drops the result of find_used_features and goes on
AfterFindUsedIgnored(e) == "collected"

\* main, line 44 (find_and_check, line 13): the ? on the result of find_used_features
AfterFindUsed(e) == IF e = "" THEN "collected" ELSE "exit"

\* find_used_features returns e ("" is Ok(())) to main; ripgrep's output, a
\* local of find_used_features, is dropped
ReturnFromFindUsed(e) ==
    /\ pc' = AfterFindUsed(e)
    /\ err' = e
    /\ outcome' = IF pc' = "exit" THEN "Err" ELSE outcome
    /\ scanned' = {}
    /\ ran' = Append(ran, <<"find_used_features", IF e = "" THEN "Ok" ELSE "Err">>)

\* path is, or descends from, an excluded path
UnderExcludedPath(path) ==
    \E e \in excluded_paths : Len(e) <= Len(path) /\ SubSeq(path, 1, Len(e)) = e

\* the Cargo.toml of the nearest directory above the file that holds one on
\* disk, if any
OwningManifest(path) ==
    LET depths == {k \in 0..(Len(path) - 1) :
                      Append(SubSeq(path, 1, k), "Cargo.toml") \in disk}
    IN  IF depths = {}
        THEN {}
        ELSE {Append(SubSeq(path, 1, CHOOSE k \in depths : \A j \in depths : j <= k),
                     "Cargo.toml")}

\* history: what the match line path/text holds that must not be recorded:
\* a guard in a file under an excluded path, a guard with an excluded name
\* in a file that is not excluded, and a recordable guard (file and name not
\* excluded) in a file that no manifest owns
KindsSeen(path, text) ==
    LET names == {text[i] : i \in 1..Len(text)} \cap Names
        free == ~UnderExcludedPath(path)
    IN  (IF names # {} /\ ~free THEN {"excluded path"} ELSE {})
        \cup (IF names \cap excluded_features # {} /\ free
              THEN {"excluded name"} ELSE {})
        \cup (IF names \ excluded_features # {} /\ free /\ OwningManifest(path) = {}
              THEN {"orphan"} ELSE {})

\* find_used_features, lines 191-195: run_rg_command fails (a scan root that
\* does not exist, rg missing) or its output is split into lines
RunRg ==
    /\ pc = "new"
    /\ \/ /\ pc' = "collecting"
          /\ UNCHANGED <<err, outcome, scanned, ran>>
       \/ ReturnFromFindUsed("rg: No such file or directory")
    /\ UNCHANGED <<mapping, excluded_paths, excluded_features, disk, toml,
                   out, first, seen>>

\* find_used_features, lines 197-214, for one line of type "match" whose
\* fields are well formed
ProcessMatch ==
    /\ pc = "collecting"
    /\ Cardinality(scanned) < MaxMatches
    /\ \E path \in RgPaths, line_number \in 1..MaxLineNumber, text \in LineTexts :
          /\ <<path, line_number>> \notin scanned
          /\ \E st \in {AddFeatures([mapping |-> mapping, first |-> first, err |-> ""],
                                     CfgFeatures(path, line_number, text), 1)} :
                 /\ mapping' = st.mapping
                 /\ first' = st.first
                 /\ seen' = seen \cup KindsSeen(path, text)
                 /\ IF st.err = ""
                    THEN /\ scanned' = scanned \cup {<<path, line_number>>}
                         /\ UNCHANGED <<pc, err, outcome, ran>>
                    ELSE ReturnFromFindUsed(st.err)
    /\ UNCHANGED <<excluded_paths, excluded_features, disk, toml, out>>

\* find_used_features, lines 198-204: a line that is no JSON (the empty last
\* line) or a JSON object of another type (begin, end, summary) is passed over
SkipLine ==
    /\ pc = "collecting"
    /\ UNCHANGED vars

\* find_used_features, line 206, with cfg_features, lines 250-252: a match
\* whose path is no text (ripgrep prints a path that is not UTF-8 as bytes)
MalformedLine ==
    /\ pc = "collecting"
    /\ ReturnFromFindUsed("Value should be a string")
    /\ UNCHANGED <<mapping, excluded_paths, excluded_features, disk, toml,
                   out, first, seen>>

\* find_used_features, line 216: the output is exhausted, Ok(()) is returned
FinishCollect ==
    /\ pc = "collecting"
    /\ ReturnFromFindUsed("")
    /\ UNCHANGED <<mapping, excluded_paths, excluded_features, disk, toml,
                   out, first, seen>>

\* what reading and parsing a Cargo.toml can give: unreadable or no TOML,
\* no [features] table, or a table with these keys
TomlContents ==
    {[state |-> "bad", keys |-> {}], [state |-> "no table", keys |-> {}]}
    \cup {[state |-> "table", keys |-> k] : k \in SUBSET Names}

\* a loader that keeps the excluded names
ExposedOfUnfiltered(content) ==
    IF content.state = "table"
    THEN {ExposedFeature(name) : name \in content.keys}
    ELSE {}

\* a loader whose exclusion test lost its negation
ExposedOfOnlyExcluded(content) ==
    IF content.state = "table"
    THEN {ExposedFeature(name) : name \in {n \in content.keys : NameExcluded(n)}}
    ELSE {}

\* find_exposed_features, lines 294-307: the exposed set of one parsed manifest
ExposedOf(content) ==
    IF content.state = "table"
    THEN {ExposedFeature(name) : name \in {n \in content.keys : ~NameExcluded(n)}}
    ELSE {}

\* find_exposed_features.  The manifests are visited in the map's arbitrary
\* order; the first one that cannot be read or parsed panics (unwrap), after
\* the ones visited before it got their exposed set.  What a Cargo.toml holds
\* is fixed on disk and is read once: it is chosen where it is read.
FindExposedFeatures ==
    /\ pc = "collected"
    /\ \E read \in SUBSET DOMAIN mapping :
       \E content \in [read -> TomlContents] :
          LET bad == {k \in read : content[k].state = "bad"}
          IN  /\ \/ read = DOMAIN mapping /\ bad = {}
                 \/ Cardinality(bad) = 1
              /\ toml' = content
              /\ mapping' =
                    [k \in DOMAIN mapping |->
                        IF k \in read \ bad
                        THEN [mapping[k] EXCEPT
                                !.exposed_features = ExposedOf(content[k])]
                        ELSE mapping[k]]
              /\ ran' = Append(ran, <<"find_exposed_features",
                                       IF bad = {} THEN "returned" ELSE "panic">>)
              /\ IF bad = {}
                 THEN pc' = "exposed" /\ UNCHANGED <<err, outcome>>
                 ELSE /\ pc' = "exit"
                      /\ err' = "called Result::unwrap() on an Err value"
                      /\ outcome' = "panic"
    /\ UNCHANGED <<excluded_paths, excluded_features, disk, scanned, out,
                   first, seen>>

\* a find_hidden_features that leaves the stored set as it is
HiddenOfStale(crate_info) == crate_info.hidden_features

\* a find_hidden_features that takes the difference of the names and wraps
\* each name again
HiddenOfByName(crate_info) ==
    {ExposedFeature(n) :
        n \in {u.name : u \in crate_info.used_features}
               \ {e.name : e \in crate_info.exposed_features}}

\* a find_hidden_features that passes over what is already stored as hidden
HiddenOfNotYetStored(crate_info) ==
    {u \in crate_info.used_features :
        \A e \in crate_info.exposed_features \cup crate_info.hidden_features :
            ~FeatureEq(u, e)}

\* find_hidden_features, lines 317-321: the hidden set of one crate
HiddenOf(crate_info) ==
    SetDifference(crate_info.used_features, crate_info.exposed_features)

\* a find_hidden_features that takes the exposed features out of the used set
FindHiddenResultInPlace(m) ==
    [k \in DOMAIN m |->
        [m[k] EXCEPT !.used_features = HiddenOf(m[k]),
                     !.hidden_features = HiddenOf(m[k])]]

\* find_hidden_features, lines 315-322: the loop over mapping.values_mut()
FindHiddenResult(m) ==
    [k \in DOMAIN m |-> [m[k] EXCEPT !.hidden_features = HiddenOf(m[k])]]

\* Package::find_hidden_features
FindHiddenFeatures ==
    /\ pc = "exposed"
    /\ mapping' = FindHiddenResult(mapping)
    /\ pc' = "reconciled"
    /\ ran' = Append(ran, <<"find_hidden_features", "returned">>)
    /\ UNCHANGED <<excluded_paths, excluded_features, disk, toml, scanned,
                   err, outcome, out, first, seen>>

\* one printed line: the operation that printed it, the crate, and either the
\* "path: .." header or a feature with what follows its name
HeaderLine(op, cargo) == [op |-> op, cargo |-> cargo.path, what |-> "path"]
FeatureLine(op, cargo, name, rest) ==
    [op |-> op, cargo |-> cargo.path, what |-> "feature", name |-> name,
     rest |-> rest]

\* clickable_path().unwrap_or_else(|| String::from(feature.name()))
Locator(feature) ==
    IF ClickablePath(feature) = {}
    THEN <<feature.name>>
    ELSE CHOOSE l \in ClickablePath(feature) : TRUE

\* Package::display_exposed_features
DisplayExposedLines ==
    {HeaderLine("exposed", mapping[k]) :
        k \in {c \in DOMAIN mapping : mapping[c].exposed_features # {}}}
    \cup UNION {{FeatureLine("exposed", mapping[k], f.name, <<>>) :
                    f \in mapping[k].exposed_features} : k \in DOMAIN mapping}

\* Package::display_used_features
DisplayUsedLines ==
    {HeaderLine("used", mapping[k]) :
        k \in {c \in DOMAIN mapping : mapping[c].used_features # {}}}
    \cup UNION {{FeatureLine("used", mapping[k], f.name, Locator(f)) :
                    f \in mapping[k].used_features} : k \in DOMAIN mapping}

\* Package::check_hidden_features, what it prints (lines 328-342)
CheckHiddenLines ==
    {HeaderLine("hidden", mapping[k]) :
        k \in {c \in DOMAIN mapping : mapping[c].hidden_features # {}}}
    \cup UNION {{FeatureLine("hidden", mapping[k], f.name, Locator(f)) :
                    f \in mapping[k].hidden_features} : k \in DOMAIN mapping}

\* a report that looks at the used sets
CheckHiddenEmptyByUsed ==
    \A k \in DOMAIN mapping : mapping[k].used_features = {}

\* Package::check_hidden_features, the flag `empty` after the loop
CheckHiddenEmpty ==
    \A k \in DOMAIN mapping : mapping[k].hidden_features = {}

HiddenMsg == "Hidden features detected."

\* Package::check_hidden_features, called where the driver stands at `at`
CheckHiddenFeatures(at) ==
    /\ pc = at
    /\ out' = out \cup CheckHiddenLines
    /\ pc' = "exit"
    /\ IF CheckHiddenEmpty
       THEN outcome' = "Ok" /\ err' = err
       ELSE outcome' = "Err" /\ err' = HiddenMsg
    /\ ran' = Append(ran, <<"check_hidden_features", outcome'>>)
    /\ UNCHANGED <<mapping, excluded_paths, excluded_features, disk, toml,
                   scanned, first, seen>>

\* main, lines 47-49: --exposed-features given or not
MainDisplayExposed ==
    /\ pc = "reconciled"
    /\ \E exposed_features \in BOOLEAN :
          out' = IF exposed_features THEN out \cup DisplayExposedLines ELSE out
    /\ pc' = "main50"
    /\ UNCHANGED <<mapping, excluded_paths, excluded_features, disk, toml,
                   scanned, err, outcome, first, seen, ran>>

\* main, lines 50-52: --used-features given or not
MainDisplayUsed ==
    /\ pc = "main50"
    /\ \E used_features \in BOOLEAN :
          out' = IF used_features THEN out \cup DisplayUsedLines ELSE out
    /\ pc' = "main53"
    /\ UNCHANGED <<mapping, excluded_paths, excluded_features, disk, toml,
                   scanned, err, outcome, first, seen, ran>>

\* a main that reports as soon as find_used_features has returned
MainCheckHiddenEarly == CheckHiddenFeatures("collected")

\* main, line 53
MainCheckHidden == CheckHiddenFeatures("main53")

\* tests::empty_features: check_hidden_features on a new Package
TestEmptyFeatures == CheckHiddenFeatures("new")

Next ==
    \/ RunRg
    \/ ProcessMatch
    \/ SkipLine
    \/ MalformedLine
    \/ FinishCollect
    \/ FindExposedFeatures
    \/ FindHiddenFeatures
    \/ MainDisplayExposed
    \/ MainDisplayUsed
    \/ MainCheckHidden
    \/ TestEmptyFeatures

Spec == Init /\ [][Next]_vars

----------------------------------------------------------------------------
(* Properties *)

\* the names of a set of features
NamesOf(features) == {f.name : f \in features}

\* find_used_features, find_exposed_features and find_hidden_features have
\* run, in that order, and nothing failed
Reconciled ==
    \/ pc \in {"reconciled", "main50", "main53"}
    \/ pc = "exit" /\ mapping # <<>> /\ err \in {"", HiddenMsg}

\* the run failed hard: an Err of find_used_features or a panic of
\* find_exposed_features
HardFailed == err \notin {"", HiddenMsg}

\* C1: once find_used_features, find_exposed_features and
\* find_hidden_features have run in that order, every crate's hidden set is
\* its used set minus its exposed set by name: hidden is a subset of used,
\* shares no name with exposed, and holds every used name that is not exposed.
C1_HiddenIsUsedMinusExposed ==
    Reconciled =>
        \A k \in DOMAIN mapping :
            /\ mapping[k].hidden_features \subseteq mapping[k].used_features
            /\ NamesOf(mapping[k].hidden_features)
                  \cap NamesOf(mapping[k].exposed_features) = {}
            /\ NamesOf(mapping[k].used_features)
                  \ NamesOf(mapping[k].exposed_features)
               \subseteq NamesOf(mapping[k].hidden_features)

\* C1 witness: a reconciled crate with one used name hidden and another exposed
C1_Witness ==
    /\ pc = "reconciled"
    /\ \E k \in DOMAIN mapping :
          /\ mapping[k].hidden_features # {}
          /\ NamesOf(mapping[k].used_features)
                \cap NamesOf(mapping[k].exposed_features) # {}

\* C2: every Used feature of mapping[m] comes from a source file whose
\* nearest ancestor directory holding a Cargo.toml holds m, whatever was
\* inserted before and whatever manifests mapping already knows.
C2_UsedBelongsToNearestManifest ==
    \A k \in DOMAIN mapping :
        /\ mapping[k].path = k
        /\ \A u \in mapping[k].used_features : OwningManifest(u.path) = {k}

\* C2 witness: a nested crate and its enclosing crate are both in mapping,
\* the nested one known through a file of its own directory
C2_Witness ==
    /\ JoinCargoToml(<<"a", "c">>) \in DOMAIN mapping
    /\ JoinCargoToml(<<"a">>) \in DOMAIN mapping
    /\ \E u \in mapping[JoinCargoToml(<<"a", "c">>)].used_features :
          u.path = <<"a", "c", "x.rs">>

\* C3: no excluded feature name is in the used, exposed or hidden set of any
\* crate, in any state.
C3_ExcludedFeatureNowhere ==
    \A k \in DOMAIN mapping :
        NamesOf(mapping[k].used_features \cup mapping[k].exposed_features
                \cup mapping[k].hidden_features)
           \cap excluded_features = {}

\* C3 witness: an excluded name was referenced in a file that is not excluded
\* and is declared in the manifest of a crate of the finished report
C3_Witness ==
    /\ pc = "exit"
    /\ outcome \in {"Ok", "Err"}
    /\ "excluded name" \in seen
    /\ \E k \in DOMAIN toml : toml[k].keys \cap excluded_features # {}

\* C4: no Used feature is recorded for a source file whose path is, or
\* descends from, an excluded path.
C4_ExcludedPathNowhere ==
    \A k \in DOMAIN mapping :
        \A u \in mapping[k].used_features : ~UnderExcludedPath(u.path)

\* C4 witness: a guard in a file below an excluded directory was processed
\* after a feature of another file had been recorded
C4_Witness ==
    /\ excluded_paths = {<<"a">>}
    /\ "excluded path" \in seen
    /\ mapping # <<>>

\* the names inserted so far for a manifest
NamesInserted(k) == {p[3].name : p \in {q \in first : q[1] = k}}

\* C5: the used set of a crate has one entry per distinct name inserted for
\* its manifest: two names give two entries, one name inserted twice gives one.
C5_OneEntryPerName ==
    /\ \A p \in first : p[1] \in DOMAIN mapping
    /\ \A k \in DOMAIN mapping :
          /\ Cardinality(mapping[k].used_features) = Cardinality(NamesInserted(k))
          /\ NamesOf(mapping[k].used_features) = NamesInserted(k)

\* C5 witness: a crate with two entries, one of them for a name that was
\* inserted again from another place
C5_Witness ==
    \E k \in DOMAIN mapping :
        /\ Cardinality(mapping[k].used_features) = 2
        /\ \E p \in first : p[1] = k /\ p[2] = "later"

\* C6: the location kept for a name in a crate's used set is the one of the
\* first insertion of that name for the manifest; later insertions of the
\* name do not change it.
C6_FirstLocationKept ==
    \A k \in DOMAIN mapping :
        \A u \in mapping[k].used_features : <<k, "first", u>> \in first

\* C6 witness: a name was inserted for a manifest a second time, from another
\* place, into a crate that was already in mapping
C6_Witness ==
    \E p \in first :
        /\ p[2] = "later"
        /\ p[1] \in DOMAIN mapping
        /\ \E u \in mapping[p[1]].used_features : u.name = p[3].name

\* check_hidden_features has returned
Reported == pc = "exit" /\ outcome \in {"Ok", "Err"} /\ err \in {"", HiddenMsg}

\* C7: check_hidden_features returns Err exactly when some crate of mapping
\* has a hidden feature; with an empty mapping it returns Ok.
C7_ReportFailsIffHidden ==
    Reported =>
        /\ outcome = "Err" <=> \E k \in DOMAIN mapping : mapping[k].hidden_features # {}
        /\ outcome = "Err" <=> err = HiddenMsg

\* C7 witness: the report succeeded although features are used
C7_Witness ==
    /\ Reported
    /\ outcome = "Ok"
    /\ \E k \in DOMAIN mapping : mapping[k].used_features # {}

\* C8 as claimed: in every state, after any operation, every crate's hidden
\* set is its used set minus its exposed set.
C8_HiddenAlwaysDerived ==
    \A k \in DOMAIN mapping :
        NamesOf(mapping[k].hidden_features)
           = NamesOf(mapping[k].used_features) \ NamesOf(mapping[k].exposed_features)

\* C8 as amended: where check_hidden_features reads the hidden sets (main
\* line 53, and the test that calls it on a new Package), and after it has
\* returned, every crate's hidden set is its used set minus its exposed set.
C8_HiddenDerivedWhenRead ==
    (pc \in {"main53", "new"} \/ Reported) =>
        \A k \in DOMAIN mapping :
            /\ mapping[k].hidden_features
                  = {u \in mapping[k].used_features :
                        u.name \notin NamesOf(mapping[k].exposed_features)}
            /\ \A line \in out :
                  line.op = "hidden" /\ line.what = "feature" /\ line.cargo = k
                     => line.name \in NamesOf(mapping[k].used_features)
                                      \ NamesOf(mapping[k].exposed_features)

\* C8 witness: the report is about to read a hidden set that is smaller than
\* the used set
C8_Witness ==
    /\ pc = "main53"
    /\ \E k \in DOMAIN mapping :
          /\ mapping[k].hidden_features # {}
          /\ mapping[k].hidden_features # mapping[k].used_features

\* C9: when a recordable occurrence (file and name not excluded) of a file
\* without owning manifest, or of a path without parent, is processed,
\* find_used_features returns an Err that ends the run; no feature of such a
\* file is in any used set.
C9_OrphanAborts ==
    /\ "orphan" \in seen =>
          pc = "exit" /\ outcome = "Err" /\ err \in {NoParentMsg, NoCargoMsg}
    /\ \A k \in DOMAIN mapping :
          \A u \in mapping[k].used_features : OwningManifest(u.path) # {}

\* C9 witness: the run was aborted by an orphan occurrence after features of
\* another crate had been recorded
C9_Witness ==
    /\ "orphan" \in seen
    /\ err = NoCargoMsg
    /\ mapping # <<>>

\* C10: after a hard failure (an Err of find_used_features, a panic of
\* find_exposed_features) the run has ended: no hidden set was computed,
\* nothing was printed and no operation can run.
C10_NothingAfterHardFailure ==
    HardFailed =>
        /\ pc = "exit"
        /\ outcome \in {"Err", "panic"}
        /\ out = {}
        /\ \A k \in DOMAIN mapping : mapping[k].hidden_features = {}
        /\ ~ENABLED Next

\* C10 witness: find_exposed_features panicked on one manifest after loading
\* the exposed features of another
C10_Witness ==
    /\ outcome = "panic"
    /\ \E k \in DOMAIN mapping : mapping[k].exposed_features # {}

\* C11: every crate of mapping has a used feature, its manifest is on disk
\* and entered mapping with the first feature inserted for it; a manifest
\* for which nothing was inserted is not a key of mapping.
C11_OnlyCratesWithUsedFeatures ==
    /\ \A k \in DOMAIN mapping :
          /\ mapping[k].used_features # {}
          /\ k \in disk
    /\ DOMAIN mapping = {p[1] : p \in {q \in first : q[2] = "first"}}

\* C11 witness: the report is done, mapping holds a crate, and a Cargo.toml
\* on disk is no key of mapping
C11_Witness ==
    /\ Reported
    /\ mapping # <<>>
    /\ disk \ DOMAIN mapping # {}

\* find_exposed_features has returned
Loaded == pc \in {"exposed", "reconciled", "main50", "main53"}

\* C12: once find_exposed_features has returned, the manifests read are
\* exactly the keys of mapping, and every crate's exposed set holds one
\* Exposed feature for each key of its features table that is not an
\* excluded name, and is empty for a manifest without a features table.
C12_ExposedIsTableMinusExcluded ==
    Loaded =>
       /\ DOMAIN toml = DOMAIN mapping
       /\ \A k \in DOMAIN mapping :
             /\ toml[k].state \in {"table", "no table"}
             /\ mapping[k].exposed_features =
                   {ExposedFeature(n) :
                      n \in IF toml[k].state = "table"
                            THEN toml[k].keys \ excluded_features
                            ELSE {}}

\* C12 witness: find_exposed_features has just returned; one manifest has no
\* features table, another has a table with an excluded and a kept key
C12_Witness ==
    /\ pc = "exposed"
    /\ \E k \in DOMAIN mapping : toml[k].state = "no table"
    /\ \E k \in DOMAIN mapping :
          /\ toml[k].state = "table"
          /\ toml[k].keys \cap excluded_features # {}
          /\ mapping[k].exposed_features # {}

\* the operations in the order main and tests::find_and_check call them
MainOrder ==
    <<"find_used_features", "find_exposed_features", "find_hidden_features",
      "check_hidden_features">>

\* C13 as stated: whenever check_hidden_features has run,
\* find_hidden_features has run before it.
C13_ReportOnlyAfterComputeHidden ==
    \A i \in 1..Len(ran) :
        ran[i][1] = "check_hidden_features" =>
            \E j \in 1..(i - 1) : ran[j][1] = "find_hidden_features"

\* C13: the operations that have run are the first ones of main's order,
\* each run once, and every one but the last has returned without Err or
\* panic; the single exception is check_hidden_features run alone on a new
\* Package, whose mapping is empty.
C13_MainOrderOrReportOnNewPackage ==
    \/ /\ Len(ran) <= Len(MainOrder)
       /\ \A i \in 1..Len(ran) : ran[i][1] = MainOrder[i]
       /\ \A i \in 1..(Len(ran) - 1) : ran[i][2] \in {"Ok", "returned"}
    \/ /\ Len(ran) = 1
       /\ ran[1] = <<"check_hidden_features", "Ok">>
       /\ mapping = <<>>

\* C13 witness: main has run all four operations on a package with a crate
C13_Witness ==
    /\ Len(ran) = 4
    /\ ran[4][1] = "check_hidden_features"
    /\ mapping # <<>>

\* C14: where find_hidden_features has run, running it once more on the
\* mapping it produced gives that mapping again: every crate keeps the same
\* hidden features, with the same names, paths and line numbers.
C14_FindHiddenIdempotent ==
    Reconciled => FindHiddenResult(mapping) = mapping

\* C14 witness: find_hidden_features has just run and a crate has two hidden
\* features
C14_Witness ==
    /\ pc = "reconciled"
    /\ \E k \in DOMAIN mapping : Cardinality(mapping[k].hidden_features) = 2

\* C15: no step removes a key of mapping or a used feature; the keys and the
\* used sets change only in steps of find_used_features;
\* find_exposed_features and find_hidden_features leave them as they are,
\* and check_hidden_features, display_exposed_features and
\* display_used_features leave the whole mapping as it is.
C15_MappingFrame ==
    [][ /\ DOMAIN mapping \subseteq DOMAIN mapping'
        /\ \A k \in DOMAIN mapping :
              mapping[k].used_features \subseteq mapping'[k].used_features
        /\ pc # "collecting" =>
              /\ DOMAIN mapping' = DOMAIN mapping
              /\ \A k \in DOMAIN mapping :
                    mapping'[k].used_features = mapping[k].used_features
        /\ pc \in {"new", "reconciled", "main50", "main53"} =>
              mapping' = mapping
      ]_vars

\* C15 witness: the two displays and the report have printed a crate's
\* features, and find_exposed_features and find_hidden_features have filled
\* that crate's exposed and hidden sets
C15_Witness ==
    /\ Reported
    /\ \E k \in DOMAIN mapping :
          /\ mapping[k].exposed_features # {}
          /\ mapping[k].hidden_features # {}
          /\ {l.op : l \in {h \in out : h.cargo = k}} = {"exposed", "used", "hidden"}

\* C16: in every reachable state and for every directory of the tree, the
\* resolver called with the manifests now in mapping returns what it returns
\* with no manifest known, that is what the walk over the disk alone returns.
C16_KnownManifestsDoNotChangeResolution ==
    \A d \in TreeDirs :
        FindAssociatedCargo(DOMAIN mapping, d) = FindAssociatedCargo({}, d)

\* C16 witness: a known manifest lies above a directory that has a Cargo.toml
\* of its own on disk which is not known
C16_Witness ==
    \E d \in TreeDirs :
        /\ JoinCargoToml(d) \in disk \ DOMAIN mapping
        /\ \E a \in Ancestors(d) \ {d} : JoinCargoToml(a) \in DOMAIN mapping

\* C17: for every directory of the tree the walk ends after at most one test
\* per ancestor; it tests the directory itself first and then each parent in
\* turn, none twice; no directory tested before the last holds a Cargo.toml;
\* it returns the Cargo.toml of the last directory tested when there is one,
\* and nothing when the last directory tested is the empty path, which has
\* no parent, and holds none.
C17_WalkNearestFirstAndEnds ==
    \A d \in TreeDirs :
        LET w == Walk(DOMAIN mapping, d)
            n == Len(w.tested)
        IN  /\ n \in 1..(Len(d) + 1)
            /\ \A i \in 1..n : w.tested[i] = SubSeq(d, 1, Len(d) - i + 1)
            /\ \A i \in 1..(n - 1) : ~Exists(JoinCargoToml(w.tested[i]))
            /\ IF Exists(JoinCargoToml(w.tested[n]))
               THEN w.found = {JoinCargoToml(w.tested[n])}
               ELSE w.found = {} /\ Parent(w.tested[n]) = {}

\* C17 witness: with a crate recorded, the walk from one directory passes a
\* directory without Cargo.toml and finds one above, and the walk from
\* another directory runs out of parents
C17_Witness ==
    /\ mapping # <<>>
    /\ \E d \in TreeDirs :
          /\ Len(Walk(DOMAIN mapping, d).tested) >= 2
          /\ Walk(DOMAIN mapping, d).found # {}
    /\ \E d \in TreeDirs : Walk(DOMAIN mapping, d).found = {}

\* the names find_hidden_features would store for crate_info if its
\* Cargo.toml held content
HiddenNamesWith(crate_info, content) ==
    NamesOf(HiddenOf([crate_info EXCEPT !.exposed_features = ExposedOf(content)]))

\* C18: from every state of the collection, for every file and every
\* sequence of tokens, one match line that holds all the tokens and separate
\* match lines that hold one token each lead to the same Err or none, the
\* same crates, the same used names in each crate and, whatever table the
\* crate's Cargo.toml holds, the same hidden names, hence the same result of
\* check_hidden_features.
C18_OneLineAsSeparateLines ==
    pc = "collecting" =>
       \A path \in RgPaths, text \in LineTexts :
          LET st == [mapping |-> mapping, first |-> first, err |-> ""]
              one == AddFeatures(st, CfgFeatures(path, 1, text), 1)
              sep == AddLines(st, path, text, 1)
          IN  /\ one.err = sep.err
              /\ DOMAIN one.mapping = DOMAIN sep.mapping
              /\ \A k \in DOMAIN one.mapping :
                    /\ NamesOf(one.mapping[k].used_features)
                          = NamesOf(sep.mapping[k].used_features)
                    /\ \A content \in TomlContents :
                          HiddenNamesWith(one.mapping[k], content)
                             = HiddenNamesWith(sep.mapping[k], content)

\* C18 witness: during the collection a crate holds two names recorded from
\* one line of one file
C18_Witness ==
    /\ pc = "collecting"
    /\ \E k \in DOMAIN mapping : \E u1, u2 \in mapping[k].used_features :
          /\ u1.name # u2.name
          /\ u1.path = u2.path
          /\ u1.line_number = u2.line_number

\* C19: in every reachable state every element of a used set and of a
\* hidden set is a Used feature, which has a path and a line number; every
\* hidden feature is an element of the same crate's used set, location
\* included; and every line check_hidden_features printed for a hidden
\* feature shows that path and line number, never the name in their place.
C19_HiddenFeaturesCarryUsedLocation ==
    /\ \A k \in DOMAIN mapping :
          /\ \A u \in mapping[k].used_features \cup mapping[k].hidden_features :
                /\ u.kind = "Used"
                /\ ClickablePath(u) = {<<u.path, u.line_number>>}
          /\ mapping[k].hidden_features \subseteq mapping[k].used_features
    /\ \A l \in out :
          (l.op = "hidden" /\ l.what = "feature") =>
             /\ l.rest # <<l.name>>
             /\ \E u \in mapping[l.cargo].used_features :
                   u.name = l.name /\ l.rest = <<u.path, u.line_number>>

\* C19 witness: check_hidden_features has printed a hidden feature
C19_Witness ==
    /\ pc = "exit"
    /\ \E l \in out : l.op = "hidden" /\ l.what = "feature"
====
